---- MODULE Spec2Model ----
(***************************************************************************)
(* A model of scaleapi/__init__.py: the ScaleClient HTTP client, its       *)
(* exceptions and its paginated lists.                                     *)
(*                                                                         *)
(* A Python dict is a sequence of <<key, value>> pairs (insertion order),  *)
(* a Python str is a TLA+ string, an HTTP response is a record giving its  *)
(* status code, its raw text and, when the text is a JSON object, the keys *)
(* the object holds and their values.  A call of a client method is one    *)
(* action: it validates, sends its request, gets the server's response     *)
(* (any response of Responses) and returns or raises.                      *)
(***************************************************************************)
EXTENDS Integers, Sequences, FiniteSets, TLC

VARIABLES api_key, construction_key, last, prev_raised

vars == <<api_key, construction_key, last, prev_raised>>

---------------------------------------------------------------------------
(* Bounds of the model.                                                    *)

\* longest "docs" array of a list response
MaxDocs == 2
\* most keyword options passed to tasks() / list_batches()
MaxKwargs == 2

---------------------------------------------------------------------------
(* Python values.                                                          *)

\* None where an int is expected (an exception's code)
None_int == -1
\* None where a str is expected (next_token)
None_str == "None"
\* None where a dict is expected (params=None, payload=None)
None_dict == <<<<"None", "None">>>>
EmptyDict == <<>>

\* x or {}
OrEmptyDict(x) == IF x = None_dict \/ x = EmptyDict THEN EmptyDict ELSE x

\* str(x) of an int or None, as '{}'.format(x) renders it
PyStr(x) == IF x = None_int THEN "None" ELSE ToString(x)

DictKeys(d) == {d[i][1] : i \in 1..Len(d)}

Range(s) == {s[i] : i \in 1..Len(s)}

---------------------------------------------------------------------------
(* Module constants.                                                       *)

TASK_TYPES ==
  << "annotation", "audiotranscription", "categorization", "comparison",
     "cuboidannotation", "datacollection", "imageannotation",
     "lineannotation", "namedentityrecognition", "pointannotation",
     "polygonannotation", "segmentannotation", "transcription",
     "videoannotation", "videoboxannotation", "videocuboidannotation" >>

SCALE_ENDPOINT == "https://api.scale.com/v1/"

DEFAULT_LIMIT == 100

DEFAULT_OFFSET == 0

---------------------------------------------------------------------------
(* Exceptions.                                                             *)

\* ScaleException.__init__ gone wrong: the message is passed on as it is,
\* without the "<Response [code]> " prefix (C3 tells the two apart)
ScaleException_init_unformatted(class, message, errcode) ==
  [class |-> class, args |-> message, code |-> errcode]

ScaleException_init(class, message, errcode) ==
  [class |-> class,
   args  |-> "<Response [" \o PyStr(errcode) \o "]> " \o message,
   code  |-> errcode]

ScaleException(message, errcode) ==
  ScaleException_init("ScaleException", message, errcode)

ScaleInvalidRequest(message, errcode) ==
  ScaleException_init("ScaleInvalidRequest", message, errcode)

\* built-in exceptions the code lets escape
KeyError(key) == [class |-> "KeyError", args |-> key, code |-> None_int]

ValueError == [class |-> "ValueError", args |-> "", code |-> None_int]

Return(v) == [raised |-> FALSE, value |-> v]

Raise(e) == [raised |-> TRUE, exc |-> e]

---------------------------------------------------------------------------
(* HTTP responses (requests.Response) and JSON documents.                  *)

\* a JSON entity document such as the elements of "docs"
Doc(id) == [keys |-> {"task_id"}, task_id |-> id]

Docs == {Doc("t1"), Doc("t2")}

DocSeqs == UNION {[1..n -> Docs] : n \in 0..MaxDocs}

\* the fields every response record has; a JSON field's value counts only
\* when its key is in "keys"
BlankResponse ==
  [status_code |-> 0, is_json |-> FALSE, text |-> "", keys |-> {},
   error |-> "", task_id |-> "", docs |-> <<>>, total |-> 0, limit |-> 0,
   offset |-> 0, has_more |-> FALSE, next_token |-> ""]

\* a body that is not JSON
TextResponse(status, text) ==
  [BlankResponse EXCEPT !.status_code = status, !.text = text]

\* {"status_code": status, "error": error}
ErrorResponse(status, error) ==
  [BlankResponse EXCEPT !.status_code = status, !.is_json = TRUE,
                        !.text = "{json}", !.keys = {"status_code", "error"},
                        !.error = error]

\* a JSON object with no "error" field: an entity document
EntityResponse(status, id) ==
  [BlankResponse EXCEPT !.status_code = status, !.is_json = TRUE,
                        !.text = "{json}", !.keys = {"task_id"},
                        !.task_id = id]

\* {docs, total, limit, offset, has_more, next_token?}
ListResponse(status, docs, total, limit, offset, has_more, has_token) ==
  [BlankResponse EXCEPT
     !.status_code = status, !.is_json = TRUE, !.text = "{json}",
     !.keys = {"docs", "total", "limit", "offset", "has_more"}
                \cup (IF has_token THEN {"next_token"} ELSE {}),
     !.docs = docs, !.total = total, !.limit = limit, !.offset = offset,
     !.has_more = has_more,
     !.next_token = IF has_token THEN "tok" ELSE ""]

Statuses == {200, 400, 500}

\* counts of matching items a list response reports
Totals == {2, 7}

\* page sizes and skip counts a list response reports
Limits == {1, DEFAULT_LIMIT}

Offsets == {DEFAULT_OFFSET, 1}

Responses ==
  UNION { {TextResponse(s, "server exploded"),
           ErrorResponse(s, "bad field"),
           EntityResponse(s, "t1")}
          \cup {ListResponse(s, d, t, l, o, m, k) :
                  d \in DocSeqs, t \in Totals, l \in Limits, o \in Offsets,
                  m \in BOOLEAN, k \in BOOLEAN}
        : s \in Statuses }

\* r.json(): the parsed body, or ValueError when the body is not JSON
json(r) == IF r.is_json THEN Return(r) ELSE Raise(ValueError)

\* obj[key]
GetItem(obj, key) ==
  IF key \notin obj.keys THEN Raise(KeyError(key))
  ELSE Return(CASE key = "error" -> obj.error
                [] key = "docs" -> obj.docs
                [] key = "total" -> obj.total
                [] key = "limit" -> obj.limit
                [] key = "offset" -> obj.offset
                [] key = "has_more" -> obj.has_more
                [] key = "next_token" -> obj.next_token
                [] key = "task_id" -> obj.task_id
                [] OTHER -> obj.status_code)

\* obj.get(key): None when the key is absent
DictGet(obj, key) ==
  IF key \in obj.keys THEN GetItem(obj, key).value ELSE None_str

---------------------------------------------------------------------------
(* ScaleClient: the request helpers.                                       *)

\* the client object: its only attribute is api_key
Self == [api_key |-> api_key]

\* _getrequest gone wrong: a non-200 response makes it send the request
\* once more before it raises (C6 tells the two apart)
_getrequest_retrying(self, endpoint, params, r) ==
  LET request == [method  |-> "GET",
                  url     |-> SCALE_ENDPOINT \o endpoint,
                  headers |-> <<<<"Content-Type", "application/json">>>>,
                  auth    |-> <<self.api_key, "">>,
                  params  |-> OrEmptyDict(params),
                  json    |-> None_dict]
      parsed == json(r)
      error == IF parsed.raised THEN Return(r.text)
               ELSE GetItem(parsed.value, "error")
  IN  [sent   |-> IF r.status_code = 200 THEN <<request>>
                  ELSE <<request, request>>,
       result |-> IF r.status_code = 200 THEN parsed
                  ELSE IF error.raised THEN error
                  ELSE IF r.status_code = 400
                       THEN Raise(ScaleInvalidRequest(error.value, r.status_code))
                  ELSE Raise(ScaleException(error.value, r.status_code))]

_getrequest(self, endpoint, params, r) ==
  LET params1 == OrEmptyDict(params)
      request == [method  |-> "GET",
                  url     |-> SCALE_ENDPOINT \o endpoint,
                  headers |-> <<<<"Content-Type", "application/json">>>>,
                  auth    |-> <<self.api_key, "">>,
                  params  |-> params1,
                  json    |-> None_dict]
      parsed == json(r)
      error == IF parsed.raised THEN Return(r.text)
               ELSE GetItem(parsed.value, "error")
  IN  [sent   |-> <<request>>,
       result |-> IF r.status_code = 200 THEN parsed
                  ELSE IF error.raised THEN error
                  ELSE IF r.status_code = 400
                       THEN Raise(ScaleInvalidRequest(error.value, r.status_code))
                  ELSE Raise(ScaleException(error.value, r.status_code))]

\* _postrequest gone wrong: the API key is sent as the password too
\* (C9 tells the two apart)
_postrequest_key_as_password(self, endpoint, payload, r) ==
  LET request == [method  |-> "POST",
                  url     |-> SCALE_ENDPOINT \o endpoint,
                  headers |-> <<<<"Content-Type", "application/json">>>>,
                  auth    |-> <<self.api_key, self.api_key>>,
                  params  |-> None_dict,
                  json    |-> OrEmptyDict(payload)]
      parsed == json(r)
      error == IF parsed.raised THEN Return(r.text)
               ELSE GetItem(parsed.value, "error")
  IN  [sent   |-> <<request>>,
       result |-> IF r.status_code = 200 THEN parsed
                  ELSE IF error.raised THEN error
                  ELSE IF r.status_code = 400
                       THEN Raise(ScaleInvalidRequest(error.value, r.status_code))
                  ELSE Raise(ScaleException(error.value, r.status_code))]

_postrequest(self, endpoint, payload, r) ==
  LET payload1 == OrEmptyDict(payload)
      request == [method  |-> "POST",
                  url     |-> SCALE_ENDPOINT \o endpoint,
                  headers |-> <<<<"Content-Type", "application/json">>>>,
                  auth    |-> <<self.api_key, "">>,
                  params  |-> None_dict,
                  json    |-> payload1]
      parsed == json(r)
      error == IF parsed.raised THEN Return(r.text)
               ELSE GetItem(parsed.value, "error")
  IN  [sent   |-> <<request>>,
       result |-> IF r.status_code = 200 THEN parsed
                  ELSE IF error.raised THEN error
                  ELSE IF r.status_code = 400
                       THEN Raise(ScaleInvalidRequest(error.value, r.status_code))
                  ELSE Raise(ScaleException(error.value, r.status_code))]

---------------------------------------------------------------------------
(* Entity wrappers and paginated lists.                                    *)

\* tasks.Task(json, client): the document and a reference to the client
Task(param_dict, client) ==
  [class |-> "Task", param_dict |-> param_dict, client |-> client]

\* batches.Batch(json, client)
Batch(param_dict, client) ==
  [class |-> "Batch", param_dict |-> param_dict, client |-> client]

\* Paginator.__init__ gone wrong: limit and offset stored crosswise
\* (C7 tells the two apart)
Paginator_init_swapped(class, docs, total, limit, offset, has_more, next_token) ==
  [class |-> class, items |-> docs, docs |-> docs, total |-> total,
   limit |-> offset, offset |-> limit, has_more |-> has_more,
   next_token |-> next_token]

\* Paginator.__init__: "items" is the list the object itself is
Paginator_init(class, docs, total, limit, offset, has_more, next_token) ==
  [class |-> class, items |-> docs, docs |-> docs, total |-> total,
   limit |-> limit, offset |-> offset, has_more |-> has_more,
   next_token |-> next_token]

Tasklist(docs, total, limit, offset, has_more, next_token) ==
  Paginator_init("Tasklist", docs, total, limit, offset, has_more, next_token)

Batchlist(docs, total, limit, offset, has_more, next_token) ==
  Paginator_init("Batchlist", docs, total, limit, offset, has_more, next_token)

---------------------------------------------------------------------------
(* ScaleClient: the operations.  Each takes the server's response r to the *)
(* request it sends and gives the requests sent, what the request helper   *)
(* returned or raised (raw) and what the operation returns or raises.      *)

NoRaw == [raised |-> FALSE, value |-> BlankResponse]

Outcome(sent, raw, result) == [sent |-> sent, raw |-> raw, result |-> result]

\* the first of the keys (in the order the code reads them) the object lacks
FirstMissing(obj, keys) ==
  LET missing == {i \in 1..Len(keys) : keys[i] \notin obj.keys}
  IN  IF missing = {} THEN 0
      ELSE CHOOSE i \in missing : \A j \in missing : i <= j

\* for key in kwargs: the first key that is not allowed, 0 when all are
FirstIllegal(kwargs, allowed_kwargs) ==
  LET illegal == {i \in 1..Len(kwargs) : kwargs[i][1] \notin allowed_kwargs}
  IN  IF illegal = {} THEN 0
      ELSE CHOOSE i \in illegal : \A j \in illegal : i <= j

fetch_task(self, task_id, r) ==
  LET g == _getrequest(self, "task/" \o task_id, None_dict, r)
  IN  Outcome(g.sent, g.result,
              IF g.result.raised THEN g.result
              ELSE Return(Task(g.result.value, self)))

cancel_task(self, task_id, r) ==
  LET g == _postrequest(self, "task/" \o task_id \o "/cancel", None_dict, r)
  IN  Outcome(g.sent, g.result,
              IF g.result.raised THEN g.result
              ELSE Return(Task(g.result.value, self)))

tasks_allowed_kwargs ==
  {"start_time", "end_time", "status", "type", "project", "batch", "limit",
   "offset", "completed_before", "completed_after", "next_token",
   "customer_review_status", "updated_before", "updated_after"}

ListKeys == <<"docs", "total", "limit", "offset", "has_more">>

tasks(self, kwargs, r) ==
  LET bad == FirstIllegal(kwargs, tasks_allowed_kwargs)
      g == _getrequest(self, "tasks", kwargs, r)
      response == g.result.value
      missing == FirstMissing(response, ListKeys)
      docs == [i \in 1..Len(response.docs) |-> Task(response.docs[i], self)]
  IN  IF bad # 0
      THEN Outcome(<<>>, NoRaw,
             Raise(ScaleInvalidRequest(
               "Illegal parameter " \o kwargs[bad][1]
                 \o " for ScaleClient.tasks()", None_int)))
      ELSE Outcome(g.sent, g.result,
             IF g.result.raised THEN g.result
             ELSE IF missing # 0 THEN Raise(KeyError(ListKeys[missing]))
             ELSE Return(Tasklist(docs, response.total, response.limit,
                                  response.offset, response.has_more,
                                  DictGet(response, "next_token"))))

\* create_task gone wrong: it posts to tasks/{type}, the listing's path
\* (C4 tells the two apart)
create_task_wrong_path(self, task_type, kwargs, r) ==
  LET endpoint == "tasks/" \o task_type
      p == _postrequest(self, endpoint, kwargs, r)
  IN  Outcome(p.sent, p.result,
              IF p.result.raised THEN p.result
              ELSE Return(Task(p.result.value, self)))

create_task(self, task_type, kwargs, r) ==
  LET endpoint == "task/" \o task_type
      p == _postrequest(self, endpoint, kwargs, r)
  IN  Outcome(p.sent, p.result,
              IF p.result.raised THEN p.result
              ELSE Return(Task(p.result.value, self)))

create_batch(self, project, batch_name, callback, r) ==
  LET payload == << <<"project", project>>, <<"name", batch_name>>,
                    <<"callback", callback>> >>
      p == _postrequest(self, "batches", payload, r)
  IN  Outcome(p.sent, p.result,
              IF p.result.raised THEN p.result
              ELSE Return(Batch(p.result.value, self)))

get_batch(self, batch_name, r) ==
  LET g == _getrequest(self, "batches/" \o batch_name, None_dict, r)
  IN  Outcome(g.sent, g.result,
              IF g.result.raised THEN g.result
              ELSE Return(Batch(g.result.value, self)))

\* list_batches' allowed_kwargs gone wrong: the set of tasks() copied
\* (C1 tells the two apart)
list_batches_allowed_kwargs_of_tasks == tasks_allowed_kwargs

list_batches_allowed_kwargs ==
  {"start_time", "end_time", "status", "project", "batch", "limit", "offset"}

\* list_batches gone wrong: it cuts the page down to limit documents
\* (C8 tells the two apart)
list_batches_truncating(self, kwargs, r) ==
  LET bad == FirstIllegal(kwargs, list_batches_allowed_kwargs)
      g == _getrequest(self, "tasks", kwargs, r)
      response == g.result.value
      missing == FirstMissing(response, ListKeys)
      n == IF Len(response.docs) <= response.limit THEN Len(response.docs)
           ELSE response.limit
      docs == [i \in 1..n |-> Batch(response.docs[i], self)]
  IN  IF bad # 0
      THEN Outcome(<<>>, NoRaw,
             Raise(ScaleInvalidRequest(
               "Illegal parameter " \o kwargs[bad][1]
                 \o " for ScaleClient.tasks()", None_int)))
      ELSE Outcome(g.sent, g.result,
             IF g.result.raised THEN g.result
             ELSE IF missing # 0 THEN Raise(KeyError(ListKeys[missing]))
             ELSE Return(Batchlist(docs, response.total, response.limit,
                                   response.offset, response.has_more,
                                   DictGet(response, "next_token"))))

list_batches(self, kwargs, r) ==
  LET bad == FirstIllegal(kwargs, list_batches_allowed_kwargs)
      g == _getrequest(self, "tasks", kwargs, r)
      response == g.result.value
      missing == FirstMissing(response, ListKeys)
      docs == [i \in 1..Len(response.docs) |-> Batch(response.docs[i], self)]
  IN  IF bad # 0
      THEN Outcome(<<>>, NoRaw,
             Raise(ScaleInvalidRequest(
               "Illegal parameter " \o kwargs[bad][1]
                 \o " for ScaleClient.tasks()", None_int)))
      ELSE Outcome(g.sent, g.result,
             IF g.result.raised THEN g.result
             ELSE IF missing # 0 THEN Raise(KeyError(ListKeys[missing]))
             ELSE Return(Batchlist(docs, response.total, response.limit,
                                   response.offset, response.has_more,
                                   DictGet(response, "next_token"))))

\* _AddTaskTypeCreator gone wrong: the closure reads the loop's variable
\* when it is called, that is the last task type (C5 tells the two apart)
_AddTaskTypeCreator_late_binding(task_type) ==
  [name |-> "create_" \o task_type \o "_task",
   task_type |-> TASK_TYPES[Len(TASK_TYPES)]]

\* _AddTaskTypeCreator(task_type): the attribute it sets on ScaleClient, a
\* closure that has captured task_type
_AddTaskTypeCreator(task_type) ==
  [name |-> "create_" \o task_type \o "_task", task_type |-> task_type]

\* for taskType in TASK_TYPES: _AddTaskTypeCreator(taskType), the class
\* attributes after the first n rounds of the loop (setattr overwrites)
RECURSIVE ScaleClient_attrs(_)
ScaleClient_attrs(n) ==
  IF n = 0 THEN <<>>
  ELSE LET a == _AddTaskTypeCreator(TASK_TYPES[n])
           before == ScaleClient_attrs(n - 1)
       IN  SelectSeq(before, LAMBDA b : b.name # a.name) \o <<a>>

create_task_wrappers == ScaleClient_attrs(Len(TASK_TYPES))

WrapperNames == {create_task_wrappers[i].name : i \in 1..Len(create_task_wrappers)}

\* getattr(client, name)(**kwargs)
create_task_wrapper(self, name, kwargs, r) ==
  LET w == CHOOSE w \in Range(create_task_wrappers) : w.name = name
  IN  create_task(self, w.task_type, kwargs, r)

---------------------------------------------------------------------------
(* The inputs of the calls.                                                *)

ApiKeys == {"key_a", "key_b"}

TaskIds == {"t1"}

BatchNames == {"b1"}

\* option keys a caller passes: one both listings take, one only tasks()
\* takes, one neither takes
OptionKeys == {"status", "type", "foo"}

OptionValue(k) ==
  CASE k = "status" -> "completed" [] k = "type" -> "annotation" [] OTHER -> "x"

\* keyword arguments: distinct keys, in the order the caller wrote them
KwargsSet ==
  LET KeySeqs == UNION {[1..n -> OptionKeys] : n \in 0..MaxKwargs}
      Distinct == {ks \in KeySeqs :
                     \A i, j \in 1..Len(ks) : ks[i] = ks[j] => i = j}
  IN  {[i \in 1..Len(ks) |-> <<ks[i], OptionValue(ks[i])>>] : ks \in Distinct}

FieldSets == {EmptyDict, << <<"instruction", "draw a box">> >>}

TaskTypeInputs == Range(TASK_TYPES) \cup {"bogus"}

---------------------------------------------------------------------------
(* The state machine.                                                      *)

NoCall == [op |-> "none"]

NoResponse == BlankResponse

\* ScaleClient.__init__(api_key); construction_key remembers the argument
Init ==
  /\ api_key \in ApiKeys
  /\ construction_key = api_key
  /\ last = NoCall
  /\ prev_raised = FALSE

\* no call is under way
Idle == last.op = "none"

\* a call of operation op with arguments args that came out as out
Call(op, args, out, r) ==
  /\ last' = [op |-> op, args |-> args, sent |-> out.sent, raw |-> out.raw,
              result |-> out.result,
              response |-> IF Len(out.sent) = 0 THEN NoResponse ELSE r]
  /\ UNCHANGED <<api_key, construction_key, prev_raised>>

Call_fetch_task ==
  /\ Idle
  /\ \E task_id \in TaskIds, r \in Responses :
      Call("fetch_task", [task_id |-> task_id], fetch_task(Self, task_id, r), r)

Call_cancel_task ==
  /\ Idle
  /\ \E task_id \in TaskIds, r \in Responses :
      Call("cancel_task", [task_id |-> task_id], cancel_task(Self, task_id, r), r)

Call_tasks ==
  /\ Idle
  /\ \E kwargs \in KwargsSet, r \in Responses :
      Call("tasks", [kwargs |-> kwargs], tasks(Self, kwargs, r), r)

Call_create_task ==
  /\ Idle
  /\ \E task_type \in TaskTypeInputs, kwargs \in FieldSets, r \in Responses :
      Call("create_task", [task_type |-> task_type, kwargs |-> kwargs],
           create_task(Self, task_type, kwargs, r), r)

Call_create_task_wrapper ==
  /\ Idle
  /\ \E name \in WrapperNames, kwargs \in FieldSets, r \in Responses :
      Call("create_task_wrapper", [name |-> name, kwargs |-> kwargs],
           create_task_wrapper(Self, name, kwargs, r), r)

Call_create_batch ==
  /\ Idle
  /\ \E batch_name \in BatchNames, r \in Responses :
      Call("create_batch",
           [project |-> "proj", batch_name |-> batch_name, callback |-> "cb"],
           create_batch(Self, "proj", batch_name, "cb", r), r)

Call_get_batch ==
  /\ Idle
  /\ \E batch_name \in BatchNames, r \in Responses :
      Call("get_batch", [batch_name |-> batch_name],
           get_batch(Self, batch_name, r), r)

Call_list_batches ==
  /\ Idle
  /\ \E kwargs \in KwargsSet, r \in Responses :
      Call("list_batches", [kwargs |-> kwargs], list_batches(Self, kwargs, r), r)

\* the call is over: its result or exception is the caller's, and the
\* client keeps nothing of it but api_key
Finish ==
  /\ last.op # "none"
  /\ last' = NoCall
  /\ prev_raised' = last.result.raised
  /\ UNCHANGED <<api_key, construction_key>>

Next ==
  \/ Call_fetch_task
  \/ Call_cancel_task
  \/ Call_tasks
  \/ Call_create_task
  \/ Call_create_task_wrapper
  \/ Call_create_batch
  \/ Call_get_batch
  \/ Call_list_batches
  \/ Finish

Spec == Init /\ [][Next]_vars

---------------------------------------------------------------------------
(* What the properties below speak about.                                  *)

\* a call has been made and is the one "last" describes
Called == last.op # "none"

\* the call reached the network: a request went out and a response came
Requested == Called /\ Len(last.sent) > 0

IsListing == last.op \in {"tasks", "list_batches"}

\* the option keys the specification recognizes, written out
RecognizedTaskOptions ==
  {"start_time", "end_time", "status", "type", "project", "batch", "limit",
   "offset", "completed_before", "completed_after", "next_token",
   "customer_review_status", "updated_before", "updated_after"}

RecognizedBatchOptions ==
  {"start_time", "end_time", "status", "project", "batch", "limit", "offset"}

Recognized(op) ==
  IF op = "tasks" THEN RecognizedTaskOptions ELSE RecognizedBatchOptions

\* the listing call passed a key outside its recognized set
HasUnrecognizedKey ==
  IsListing /\ ~(DictKeys(last.args.kwargs) \subseteq Recognized(last.op))

\* the 16 known task-type identifiers, written out
KnownTaskTypes ==
  {"annotation", "audiotranscription", "categorization", "comparison",
   "cuboidannotation", "datacollection", "imageannotation", "lineannotation",
   "namedentityrecognition", "pointannotation", "polygonannotation",
   "segmentannotation", "transcription", "videoannotation",
   "videoboxannotation", "videocuboidannotation"}

\* the call returned a paginated list
ReturnedList ==
  /\ Requested /\ IsListing
  /\ ~last.result.raised

\* the response is a 200 list response {docs, total, limit, offset,
\* has_more, next_token?}
GotListResponse ==
  /\ Requested
  /\ last.response.status_code = 200
  /\ last.response.is_json
  /\ Range(ListKeys) \subseteq last.response.keys

---------------------------------------------------------------------------
(* C1 - unrecognized option keys.                                          *)

\* C1: a list_tasks or list_batches call whose options hold a key outside
\* the operation's recognized set (14 keys for list_tasks, 7 for
\* list_batches) raises ScaleInvalidRequest and has sent no request,
\* whatever the other keys and the order of the keys.
C1_UnrecognizedKeyRejectedLocally ==
  /\ Cardinality(RecognizedTaskOptions) = 14
  /\ HasUnrecognizedKey =>
       /\ last.result.raised
       /\ last.result.exc.class = "ScaleInvalidRequest"
       /\ last.sent = <<>>

\* list_batches called with a recognized key first and then "type", which
\* only list_tasks recognizes: rejected, nothing sent
C1_Witness ==
  /\ last.op = "list_batches"
  /\ Len(last.args.kwargs) = 2
  /\ last.args.kwargs[1][1] = "status"
  /\ last.args.kwargs[2][1] = "type"
  /\ last.result.raised
  /\ last.sent = <<>>

---------------------------------------------------------------------------
(* C2 - the status-code mapping.                                           *)

\* C2: for every operation, a 200 response (with a JSON body to parse)
\* makes the request helper return the parsed JSON body and raise nothing; a 400 response raises
\* ScaleInvalidRequest with code 400; any other status s raises a
\* ScaleException that is no ScaleInvalidRequest, with code s.
C2_StatusMapping ==
  Requested =>
    LET r == last.response
    IN  /\ (r.status_code = 200 /\ r.is_json) =>
             /\ ~last.raw.raised
             /\ last.raw.value = r
        /\ r.status_code = 400 =>
             /\ last.raw.raised
             /\ last.raw.exc.class = "ScaleInvalidRequest"
             /\ last.raw.exc.code = 400
        /\ r.status_code \notin {200, 400} =>
             /\ last.raw.raised
             /\ last.raw.exc.class = "ScaleException"
             /\ last.raw.exc.code = r.status_code

---------------------------------------------------------------------------
(* C3 - the message of the error for a non-JSON body.                      *)

\* C3 as stated: for a response that is neither 200 nor 400 and whose body
\* is not JSON, the operation raises a ScaleException whose message equals
\* the raw response text.
C3_MessageIsRawText ==
  (Requested /\ last.response.status_code \notin {200, 400}
     /\ ~last.response.is_json) =>
    /\ last.result.raised
    /\ last.result.exc.class = "ScaleException"
    /\ last.result.exc.args = last.response.text

\* C3 amended: for such a response the operation raises a ScaleException
\* whose code is the status s and whose message is "<Response [s]> "
\* followed by the raw response text.
C3_MessageIsPrefixedRawText ==
  (Requested /\ last.response.status_code \notin {200, 400}
     /\ ~last.response.is_json) =>
    /\ last.result.raised
    /\ last.result.exc.class = "ScaleException"
    /\ last.result.exc.code = last.response.status_code
    /\ last.result.exc.args =
         "<Response [" \o ToString(last.response.status_code) \o "]> "
           \o last.response.text

\* status 500, body "server exploded"
C3_Witness ==
  /\ Requested
  /\ last.response.status_code = 500
  /\ ~last.response.is_json
  /\ last.response.text = "server exploded"
  /\ last.result.raised
  /\ last.result.exc.args = "<Response [500]> server exploded"

---------------------------------------------------------------------------
(* C4 - the task types create_task posts.                                  *)

PostedType(T) ==
  /\ Len(last.sent) = 1
  /\ last.sent[1].method = "POST"
  /\ last.sent[1].url = SCALE_ENDPOINT \o "task/" \o T

\* C4 as stated: every POST task/{type} request create_task issues has a
\* type among the 16 known ones, and create_task called with a task_type
\* outside that set sends no request.
C4_OnlyKnownTypesPosted ==
  last.op = "create_task" =>
    IF last.args.task_type \in KnownTaskTypes
    THEN PostedType(last.args.task_type)
    ELSE last.sent = <<>>

\* C4 amended: create_task does not check task_type: whatever task_type it
\* is called with, it issues one POST to task/{task_type}; the convenience
\* methods create_T_task only issue POSTs to task/T with T one of the 16
\* known types.
C4_CreateTaskPostsGivenType ==
  /\ last.op = "create_task" => PostedType(last.args.task_type)
  /\ last.op = "create_task_wrapper" => \E T \in KnownTaskTypes : PostedType(T)

\* create_task("bogus", ...) has posted to task/bogus
C4_Witness ==
  /\ last.op = "create_task"
  /\ last.args.task_type = "bogus"
  /\ PostedType("bogus")

---------------------------------------------------------------------------
(* C5 - the convenience methods.                                           *)

\* C5: for each of the 16 known task types T and every field mapping F,
\* create_T_task(F) issues the single POST to task/T with body F that
\* create_task(T, F) issues and, for the same response, returns the same
\* Task or raises the same error; there is exactly one convenience method
\* per known type.
C5_WrapperEquivalentToCreateTask ==
  /\ WrapperNames = {"create_" \o T \o "_task" : T \in KnownTaskTypes}
  /\ Len(create_task_wrappers) = Cardinality(KnownTaskTypes)
  /\ last.op = "create_task_wrapper" =>
       \E T \in KnownTaskTypes :
         /\ last.args.name = "create_" \o T \o "_task"
         /\ PostedType(T)
         /\ last.sent[1].json = last.args.kwargs
         /\ LET direct == create_task([api_key |-> construction_key], T,
                                      last.args.kwargs, last.response)
            IN  /\ last.sent = direct.sent
                /\ last.result = direct.result

\* create_imageannotation_task(instruction=...) has returned a Task
C5_Witness ==
  /\ last.op = "create_task_wrapper"
  /\ last.args.name = "create_imageannotation_task"
  /\ last.args.kwargs # EmptyDict
  /\ PostedType("imageannotation")
  /\ ~last.result.raised
  /\ last.result.value.class = "Task"

---------------------------------------------------------------------------
(* C6 - one request per call.                                              *)

\* C6: every call that passes local parameter validation has issued exactly
\* one network request when it returns or raises; in particular a non-200
\* response is not followed by a second request.
C6_ExactlyOneRequest ==
  (Called /\ ~HasUnrecognizedKey) =>
    /\ Len(last.sent) = 1
    /\ last.response.status_code # 200 => last.result.raised

\* list_tasks got a 500 response and raised after its one request
C6_Witness ==
  /\ last.op = "tasks"
  /\ ~HasUnrecognizedKey
  /\ Len(last.sent) = 1
  /\ last.response.status_code = 500
  /\ last.result.raised

---------------------------------------------------------------------------
(* C7 - the list list_tasks builds.                                        *)

\* C7: for a 200 list response, list_tasks returns a Tasklist with one Task
\* per element of docs, in the response's order, whose total, limit, offset
\* and has_more are the response's and whose next_token is the response's
\* next_token, or None when the response has none.
C7_TasklistFromResponse ==
  (last.op = "tasks" /\ GotListResponse) =>
    LET r == last.response
        l == last.result.value
    IN  /\ ~last.result.raised
        /\ l.class = "Tasklist"
        /\ Len(l.items) = Len(r.docs)
        /\ \A i \in 1..Len(r.docs) :
             /\ l.items[i].class = "Task"
             /\ l.items[i].param_dict = r.docs[i]
        /\ l.total = r.total
        /\ l.limit = r.limit
        /\ l.offset = r.offset
        /\ l.has_more = r.has_more
        /\ l.next_token = IF "next_token" \in r.keys THEN r.next_token
                          ELSE None_str

\* docs [t1, t2], total 2, limit 100, offset 0, has_more false, no
\* next_token: a list of length 2, total 2, has_more False, next_token None
C7_Witness ==
  /\ last.op = "tasks"
  /\ GotListResponse
  /\ last.response.docs = <<Doc("t1"), Doc("t2")>>
  /\ last.response.total = 2
  /\ last.response.limit = 100
  /\ ~last.response.has_more
  /\ "next_token" \notin last.response.keys
  /\ ~last.result.raised
  /\ Len(last.result.value.items) = 2
  /\ last.result.value.total = 2
  /\ last.result.value.has_more = FALSE
  /\ last.result.value.next_token = None_str

---------------------------------------------------------------------------
(* C8 - the invariant of a paginated list.                                 *)

\* C8 as stated (its part about the length): every paginated list that
\* list_tasks or list_batches returns is at most limit long.
C8_LengthAtMostLimit ==
  ReturnedList => Len(last.result.value.items) <= last.result.value.limit

\* C8 amended: every paginated list that list_tasks or list_batches returns
\* is as long as the response's docs and has the response's limit and
\* has_more, unchecked: it is at most limit long exactly when the response
\* holds at most limit docs.
C8_ListMirrorsResponse ==
  ReturnedList =>
    LET r == last.response
        l == last.result.value
    IN  /\ l.class = IF last.op = "tasks" THEN "Tasklist" ELSE "Batchlist"
        /\ Len(l.items) = Len(r.docs)
        /\ l.limit = r.limit
        /\ l.has_more = r.has_more
        /\ (Len(l.items) <= l.limit) <=> (Len(r.docs) <= r.limit)

\* list_batches has returned a Batchlist of two items whose limit is 1
C8_Witness ==
  /\ ReturnedList
  /\ last.op = "list_batches"
  /\ last.result.value.class = "Batchlist"
  /\ Len(last.result.value.items) = 2
  /\ last.result.value.limit = 1

---------------------------------------------------------------------------
(* C9 - the credential.                                                    *)

\* the endpoint and the method of the request an operation sends, from its
\* arguments alone
C9_Endpoint(op, args) ==
  CASE op = "fetch_task" -> <<"GET", "task/" \o args.task_id>>
    [] op = "cancel_task" -> <<"POST", "task/" \o args.task_id \o "/cancel">>
    [] op = "tasks" -> <<"GET", "tasks">>
    [] op = "create_task" -> <<"POST", "task/" \o args.task_type>>
    [] op = "create_task_wrapper" ->
         <<"POST",
           "task/" \o (CHOOSE T \in KnownTaskTypes :
                         args.name = "create_" \o T \o "_task")>>
    [] op = "create_batch" -> <<"POST", "batches">>
    [] op = "get_batch" -> <<"GET", "batches/" \o args.batch_name>>
    [] op = "list_batches" -> <<"GET", "tasks">>

\* C9: after any sequence of calls, successful or failing, the client's
\* api_key is the key given at construction; every request a call issued
\* carried Basic Auth (that key, ""), and its method and endpoint follow
\* from the call's operation and arguments alone, whatever the earlier
\* calls' outcomes.
C9_CredentialUnchanged ==
  /\ api_key = construction_key
  /\ Called =>
       \A i \in 1..Len(last.sent) :
         /\ last.sent[i].auth = <<construction_key, "">>
         /\ last.sent[i].method = C9_Endpoint(last.op, last.args)[1]
         /\ last.sent[i].url = SCALE_ENDPOINT \o C9_Endpoint(last.op, last.args)[2]

\* a call after a call that raised: its request carries the construction
\* key and an empty password
C9_Witness ==
  /\ prev_raised
  /\ last.op = "cancel_task"
  /\ Len(last.sent) = 1
  /\ last.sent[1].auth = <<construction_key, "">>
  /\ last.result.raised
  /\ api_key = construction_key

---------------------------------------------------------------------------
(* C10 - the errors of a non-200 response.                                 *)

\* C10: for every non-200 response, whatever its body, the operation raises
\* ScaleInvalidRequest or ScaleException: no other kind of error, and no
\* result.
C10_OnlyTwoErrorKinds ==
  (Requested /\ last.response.status_code # 200) =>
    /\ last.result.raised
    /\ last.result.exc.class \in {"ScaleInvalidRequest", "ScaleException"}

====
